---- MODULE Spec2Model ----
(***************************************************************************)
(* State-machine model of the SaaS starter API (src/main.py, src/schemas.py)*)
(* and of the document store adapter it imports from database.py.           *)
(*                                                                          *)
(* Text that the handlers transform (emails, titles, contents) is a         *)
(* sequence of one-character strings, so that lower(), strip(), replace()   *)
(* and slicing are computed character by character.  Text that is only      *)
(* carried around (names, passwords, messages) is a TLA+ string.            *)
(***************************************************************************)
EXTENDS Integers, Sequences, FiniteSets, Bags, TLC

VARIABLES
    db,         \* the module-level store handle: "none" (db is None) or "client"
    store,      \* collection name -> sequence of documents, in storage order
    nextId,     \* the next identifier the store hands out
    clock,      \* logical utcnow(): advances with every post created
    inflight,   \* bag of the payloads of the register requests between their two store calls
    last        \* the last completed HTTP exchange: [op, req, reachable, status, body]

vars == <<db, store, nextId, clock, inflight, last>>

(***************************************************************************)
(* Bounds of the model.                                                     *)
(***************************************************************************)
\* documents stored plus register requests in flight (so also the number of
\* register requests that can run concurrently)
MaxDocs == 2
\* longest post content tried
MaxContentLen == 141
\* most collection names the store reports to /test
MaxCollections == 11

(***************************************************************************)
(* Program constants.                                                       *)
(***************************************************************************)
ExcerptLen == 140
CollectionCap == 10
ErrorTextCap == 50

Min(a, b) == IF a <= b THEN a ELSE b

\* Python's s[:n]
Take(s, n) == SubSeq(s, 1, Min(n, Len(s)))

(***************************************************************************)
(* str.lower(), character by character.                                     *)
(***************************************************************************)
UpperCase == <<"A","B","C","D","E","F","G","H","I","J","K","L","M",
               "N","O","P","Q","R","S","T","U","V","W","X","Y","Z">>
LowerCase == <<"a","b","c","d","e","f","g","h","i","j","k","l","m",
               "n","o","p","q","r","s","t","u","v","w","x","y","z">>

\* each upper-case letter's lower-case letter
UpperToLower ==
    [c \in {UpperCase[i] : i \in 1..Len(UpperCase)} |->
        LowerCase[CHOOSE i \in 1..Len(UpperCase) : UpperCase[i] = c]]

LowerChar(c) == IF c \in DOMAIN UpperToLower THEN UpperToLower[c] ELSE c

Lower(s) == [i \in 1..Len(s) |-> LowerChar(s[i])]

(***************************************************************************)
(* Record schemas (src/schemas.py): the fields and their defaults.          *)
(***************************************************************************)
User(name, email, password_hash) ==
    [name |-> name, email |-> email, password_hash |-> password_hash,
     avatar_url |-> "None", role |-> "user", is_active |-> TRUE]

BlogPost(title, slug, excerpt, content, author_name, tags, status, published_at) ==
    [title |-> title, slug |-> slug, excerpt |-> excerpt, content |-> content,
     author_name |-> author_name, cover_image |-> "None", tags |-> tags,
     status |-> status, published_at |-> published_at]

ContactMessage(name, email, company, message) ==
    [name |-> name, email |-> email, company |-> company, message |-> message,
     status |-> "new"]

(***************************************************************************)
(* Document store adapter (database.py).                                    *)
(***************************************************************************)
Collections == {"user", "blogpost", "contactmessage"}

\* The outcomes one store call can have: it fails when the handle is absent,
\* and may fail (backend unreachable) when it is present.
StoreOutcomes == IF db = "none" THEN {FALSE} ELSE BOOLEAN

\* find: the documents of a collection whose field equals value, in storage
\* order, cut to limit (0: no limit)
get_documents(collection, field, value, limit) ==
    LET found == SelectSeq(store[collection], LAMBDA d : d[field] = value)
    IN  IF limit = 0 THEN found ELSE Take(found, limit)

\* the stored form of a record: its fields and the identifier the store assigns
Document(record, id) ==
    [f \in DOMAIN record \cup {"_id"} |-> IF f = "_id" THEN id ELSE record[f]]

\* str(): an identifier as text
Str(id) == ToString(id)

\* create: the identifier it returns for the record it inserts next
InsertedId == Str(nextId)

\* create: the store after the insert of a record
create_document(collection, record) ==
    [store EXCEPT ![collection] = Append(@, Document(record, nextId))]

(***************************************************************************)
(* Responses.  An exchange is one completed request: the handler (op), the  *)
(* payload (req), whether its store calls reached the backend (reachable),  *)
(* and the HTTP status and body answered.                                   *)
(***************************************************************************)
Exchange(op, req, reachable, status, body) ==
    [op |-> op, req |-> req, reachable |-> reachable, status |-> status, body |-> body]

\* an exception no handler catches: the framework answers 500
ServerError(op, req) ==
    Exchange(op, req, FALSE, 500, [detail |-> "Internal Server Error"])

\* raise HTTPException(status_code, detail)
HTTPException(op, req, status_code, detail) ==
    Exchange(op, req, TRUE, status_code, [detail |-> detail])

Created == nextId - 1
InFlight == BagCardinality(inflight)

(***************************************************************************)
(* POST /api/auth/register                                                  *)
(***************************************************************************)
Names == {"Ann", "Bob"}
Passwords == {"p1", "p2"}
Emails == {<<"a","@","x">>, <<"A","@","x">>, <<"b","@","x">>}

RegisterPayloads == [name : Names, email : Emails, password : Passwords]

PasswordHash(password) == "sha256:" \o password

\* the existence check without lower()
ExistingExactCase(payload) == get_documents("user", "email", payload.email, 1)

\* the existence check matching any account
ExistingAny(payload) == Take(store["user"], 1)

\* line 34: the existence check
Existing(payload) == get_documents("user", "email", Lower(payload.email), 1)

\* line 37: the Account built from the payload
NewUser(payload) ==
    User(payload.name, Lower(payload.email), PasswordHash(payload.password))

\* line 34-36: the lookup, and the rejection of a stored email.  A request
\* that passes the check is in flight until its insert.
register_user_lookup(payloads) ==
    /\ \E payload \in payloads, ok \in StoreOutcomes :
         IF ~ok
         THEN /\ last' = ServerError("register", payload)
              /\ UNCHANGED inflight
         ELSE IF Existing(payload) # <<>>
         THEN /\ last' = HTTPException("register", payload, 400, "Email already registered")
              /\ UNCHANGED inflight
         ELSE /\ Created + InFlight < MaxDocs
              /\ inflight' = inflight (+) SetToBag({payload})
              /\ UNCHANGED last
    /\ UNCHANGED <<db, store, nextId, clock>>

\* an insert that checks the email again, atomically with the write
register_user_insert_checked ==
    /\ \E payload \in BagToSet(inflight), ok \in StoreOutcomes :
         LET user == NewUser(payload)
         IN  /\ inflight' = inflight (-) SetToBag({payload})
             /\ IF ~ok
                THEN /\ last' = ServerError("register", payload)
                     /\ UNCHANGED <<store, nextId>>
                ELSE IF Existing(payload) # <<>>
                THEN /\ last' = HTTPException("register", payload, 400,
                                              "Email already registered")
                     /\ UNCHANGED <<store, nextId>>
                ELSE /\ store' = create_document("user", user)
                     /\ nextId' = nextId + 1
                     /\ last' = Exchange("register", payload, TRUE, 200,
                                  [id |-> InsertedId, name |-> user.name, email |-> user.email])
    /\ UNCHANGED <<db, clock>>

\* line 37-39: the insert and the response
register_user_insert ==
    /\ \E payload \in BagToSet(inflight), ok \in StoreOutcomes :
         LET user == NewUser(payload)
         IN  /\ inflight' = inflight (-) SetToBag({payload})
             /\ IF ok
                THEN /\ store' = create_document("user", user)
                     /\ nextId' = nextId + 1
                     /\ last' = Exchange("register", payload, TRUE, 200,
                                  [id |-> InsertedId, name |-> user.name, email |-> user.email])
                ELSE /\ last' = ServerError("register", payload)
                     /\ UNCHANGED <<store, nextId>>
    /\ UNCHANGED <<db, clock>>

(***************************************************************************)
(* POST /api/auth/login                                                     *)
(***************************************************************************)
LoginPayloads == [email : Emails, password : Passwords]

\* the account looked up without lower()
UserDocsExactCase(payload) == get_documents("user", "email", payload.email, 1)

\* line 47: the account looked up
UserDocs(payload) == get_documents("user", "email", Lower(payload.email), 1)

\* a login that tells an unknown email from a wrong password
LoginResponseLeaky(payload) ==
    LET user_docs == UserDocs(payload)
    IN  IF user_docs = <<>>
        THEN HTTPException("login", payload, 404, "User not found")
        ELSE IF user_docs[1].password_hash # PasswordHash(payload.password)
        THEN HTTPException("login", payload, 401, "Invalid credentials")
        ELSE Exchange("login", payload, TRUE, 200,
               [token |-> "demo-token",
                user  |-> [name |-> user_docs[1].name, email |-> user_docs[1].email]])

\* line 48-54
LoginResponse(payload) ==
    LET user_docs == UserDocs(payload)
    IN  IF user_docs = <<>>
        THEN HTTPException("login", payload, 401, "Invalid credentials")
        ELSE IF user_docs[1].password_hash # PasswordHash(payload.password)
        THEN HTTPException("login", payload, 401, "Invalid credentials")
        ELSE Exchange("login", payload, TRUE, 200,
               [token |-> "demo-token",
                user  |-> [name |-> user_docs[1].name, email |-> user_docs[1].email]])

login_user(payloads) ==
    /\ \E payload \in payloads, ok \in StoreOutcomes :
         last' = IF ok THEN LoginResponse(payload) ELSE ServerError("login", payload)
    /\ UNCHANGED <<db, store, nextId, clock, inflight>>

(***************************************************************************)
(* GET /api/blog                                                            *)
(***************************************************************************)
NoRequest == [none |-> TRUE]

\* the listing without the status filter
AllPosts == store["blogpost"]

\* line 71
PublishedPosts == get_documents("blogpost", "status", "published", 0)

\* line 75-84: the light-weight view of one post
PostView(p) ==
    [id |-> Str(p._id), title |-> p.title, slug |-> p.slug, excerpt |-> p.excerpt,
     author_name |-> p.author_name, cover_image |-> p.cover_image,
     tags |-> p.tags, published_at |-> p.published_at]

\* line 73-85
ListResponse ==
    LET posts == PublishedPosts
    IN  Exchange("list", NoRequest, TRUE, 200, [i \in 1..Len(posts) |-> PostView(posts[i])])

list_posts ==
    /\ \E ok \in StoreOutcomes :
         last' = IF ok THEN ListResponse ELSE ServerError("list", NoRequest)
    /\ UNCHANGED <<db, store, nextId, clock, inflight>>

(***************************************************************************)
(* POST /api/blog                                                           *)
(***************************************************************************)
\* the characters str.strip() removes
Whitespace == {" ", "\t", "\n", "\r", "\f"}

RECURSIVE LStrip(_)
LStrip(s) ==
    IF s # <<>> /\ Head(s) \in Whitespace THEN LStrip(Tail(s)) ELSE s

RECURSIVE RStrip(_)
RStrip(s) ==
    IF s # <<>> /\ s[Len(s)] \in Whitespace THEN RStrip(SubSeq(s, 1, Len(s) - 1)) ELSE s

Strip(s) == RStrip(LStrip(s))

\* str.replace(old, new) for one-character old and new
Replace(s, old, new) == [i \in 1..Len(s) |-> IF s[i] = old THEN new ELSE s[i]]

\* the slug with the spaces replaced before the trim
SlugReplaceFirst(title) == Strip(Replace(Lower(title), " ", "-"))

\* line 95
Slug(title) == Replace(Strip(Lower(title)), " ", "-")

Ellipsis == <<".", ".", ".">>

\* the excerpt cut from ExcerptLen characters on, not from more than that
ExcerptOffByOne(content) ==
    IF Len(content) >= ExcerptLen THEN Take(content, ExcerptLen) \o Ellipsis ELSE content

\* line 99
Excerpt(content) ==
    IF Len(content) > ExcerptLen THEN Take(content, ExcerptLen) \o Ellipsis ELSE content

\* line 103
NewPostStatus == "published"

\* line 96-105 (payload.tags or []: tags left out are the empty sequence)
NewPost(payload) ==
    BlogPost(payload.title, Slug(payload.title), Excerpt(payload.content),
             payload.content, payload.author_name, payload.tags, NewPostStatus, clock)

\* the post written to another collection
WrongPostCollection == "contactmessage"

\* line 106
PostCollection == "blogpost"

create_post(payloads) ==
    /\ Created + InFlight < MaxDocs
    /\ \E payload \in payloads, ok \in StoreOutcomes :
         IF ok
         THEN /\ store' = create_document(PostCollection, NewPost(payload))
              /\ nextId' = nextId + 1
              /\ clock' = clock + 1
              /\ last' = Exchange("create_post", payload, TRUE, 200,
                           [id |-> InsertedId, slug |-> Slug(payload.title)])
         ELSE /\ last' = ServerError("create_post", payload)
              /\ UNCHANGED <<store, nextId, clock>>
    /\ UNCHANGED <<db, inflight>>

(***************************************************************************)
(* POST /api/contact                                                        *)
(***************************************************************************)
submit_contact(payloads) ==
    /\ Created + InFlight < MaxDocs
    /\ \E payload \in payloads, ok \in StoreOutcomes :
         LET entry == ContactMessage(payload.name, payload.email, payload.company,
                                     payload.message)
         IN  IF ok
             THEN /\ store' = create_document("contactmessage", entry)
                  /\ nextId' = nextId + 1
                  /\ last' = Exchange("contact", payload, TRUE, 200,
                               [id |-> InsertedId, status |-> "received"])
             ELSE /\ last' = ServerError("contact", payload)
                  /\ UNCHANGED <<store, nextId>>
    /\ UNCHANGED <<db, clock, inflight>>

(***************************************************************************)
(* GET /test                                                                *)
(***************************************************************************)
\* the collection names without the cap
UncappedCollections(collections) == collections

\* line 141
ListedCollections(collections) == Take(collections, CollectionCap)

\* line 144: the error text kept
ErrorText(e) == Take(e, ErrorTextCap)

\* what db.list_collection_names() can answer: up to MaxCollections names
\* (numbered here), or an exception with a message
CollectionLists ==
    {[i \in 1..n |-> i] : n \in {0} \cup (CollectionCap .. MaxCollections)}
ErrorMessages == {[i \in 1..n |-> "e"] : n \in {ErrorTextCap - 1, ErrorTextCap + 1}}

\* DATABASE_URL and DATABASE_NAME: both set, or neither
Environments == {[url |-> b, name |-> b] : b \in BOOLEAN}

Flag(set) == IF set THEN "Set" ELSE "Not Set"

\* line 125-149.  env: whether DATABASE_URL and DATABASE_NAME are set.
TestResponse(env, ok, collections, e) ==
    LET req == [url |-> env.url, name |-> env.name, collections |-> collections, e |-> e]
    IN  IF db = "none"
        THEN Exchange("test", req, FALSE, 200,
               [backend |-> "Running",
                database |-> [text |-> "Available but not initialized", error |-> <<>>],
                database_url |-> "None", database_name |-> "None",
                connection_status |-> "Not Connected", collections |-> <<>>])
        ELSE Exchange("test", req, ok, 200,
               [backend |-> "Running",
                database |-> IF ok THEN [text |-> "Connected & Working", error |-> <<>>]
                             ELSE [text |-> "Connected but Error", error |-> ErrorText(e)],
                database_url |-> Flag(env.url), database_name |-> Flag(env.name),
                connection_status |-> "Connected",
                collections |-> IF ok THEN ListedCollections(collections) ELSE <<>>])

test_database ==
    /\ \E env \in Environments, ok \in StoreOutcomes :
         IF ok
         THEN \E collections \in CollectionLists :
                last' = TestResponse(env, TRUE, collections, <<>>)
         ELSE \E e \in ErrorMessages :
                last' = TestResponse(env, FALSE, <<>>, e)
    /\ UNCHANGED <<db, store, nextId, clock, inflight>>

(***************************************************************************)
(* Inputs.                                                                  *)
(***************************************************************************)
\* the digits, repeated: a text of n characters whose slices differ
Text(n) == [i \in 1..n |-> <<"0","1","2","3","4","5","6","7","8","9">>[(i % 10) + 1]]

ContentLens == {0, ExcerptLen} \cup (ExcerptLen + 1 .. MaxContentLen)
Contents == {Text(n) : n \in ContentLens}

Titles == { <<"H","e","l","l","o"," ","W","o","r","l","d">>,
            <<" "," ","H","i"," "," ","Y","o","u","\t">>,
            <<"\n","A","\t","b"," ">>,
            <<" "," ">> }

BlogPayloads ==
    [title : Titles, content : Contents, author_name : {"Ann"}, tags : {<<>>}]

\* the inputs of the full system, where every handler runs: one or two of each
FewRegisterPayloads ==
    [name : {"Ann"}, email : {<<"A","@","x">>, <<"b","@","x">>}, password : {"p1"}]

FewLoginPayloads ==
    [email : {<<"a","@","x">>}, password : Passwords]

FewBlogPayloads ==
    [title : {<<"H","e","l","l","o"," ","W","o","r","l","d">>},
     content : {Text(2)}, author_name : {"Ann"}, tags : {<<>>, <<"news">>}]

ContactPayloads ==
    [name : {"Ann"}, email : {<<"a","@","x">>}, company : {"None", "Acme"},
     message : {"hello"}]

\* a post of status "draft", which only another writer of the database can
\* have stored: create_post never writes one
SeedDraft ==
    Document(BlogPost(<<"W","I","P">>, <<"w","i","p">>, <<>>, <<>>, "Bob", <<>>, "draft", 0), 0)

(***************************************************************************)
(* The system.                                                              *)
(***************************************************************************)
NoExchange == Exchange("none", NoRequest, TRUE, 0, [detail |-> ""])

InitWith(seeds) ==
    /\ db \in {"none", "client"}
    /\ store \in {[c \in Collections |-> IF c = "blogpost" THEN seed ELSE <<>>] :
                    seed \in seeds}
    /\ nextId = 1
    /\ clock = 1
    /\ inflight = EmptyBag
    /\ last = NoExchange

\* the database is empty, or holds a draft
Init == InitWith({<<>>, <<SeedDraft>>})

\* every handler, register requests interleaving freely
Next ==
    \/ register_user_lookup(FewRegisterPayloads)
    \/ register_user_insert
    \/ login_user(FewLoginPayloads)
    \/ list_posts
    \/ create_post(FewBlogPayloads)
    \/ submit_contact(ContactPayloads)
    \/ test_database

Spec == Init /\ [][Next]_vars

\* the blog handlers on the full range of titles and contents
NextBlog ==
    \/ create_post(BlogPayloads)
    \/ list_posts

SpecBlog == Init /\ [][NextBlog]_vars

\* the account handlers on the full range of payloads, from an empty database
InitAuth == InitWith({<<>>})

\* register requests interleaving freely
NextAuth ==
    \/ register_user_lookup(RegisterPayloads)
    \/ register_user_insert
    \/ login_user(LoginPayloads)

SpecAuth == InitAuth /\ [][NextAuth]_vars

\* register requests one at a time: a lookup starts only when no other
\* register request is between its lookup and its insert
NextAuthSeq ==
    \/ inflight = EmptyBag /\ register_user_lookup(RegisterPayloads)
    \/ register_user_insert
    \/ login_user(LoginPayloads)

SpecAuthSeq == InitAuth /\ [][NextAuthSeq]_vars

(***************************************************************************)
(* Properties.                                                              *)
(***************************************************************************)
Users == store["user"]
Posts == store["blogpost"]
Contacts == store["contactmessage"]

\* a request of handler op completes in this step
Completes(op) == last' # last /\ last'.op = op

EmailStored(email) == \E i \in 1..Len(Users) : Users[i].email = email

OneAccountPerEmail ==
    \A i, j \in 1..Len(Users) : Users[i].email = Users[j].email => i = j

\* C1: with register requests one at a time, a register request that reaches
\* the store and whose lowercased email is the email of a stored Account is
\* answered 400 "Email already registered" and leaves the store as it was.
C1_DuplicateEmailRejected ==
    [][ ( /\ Completes("register")
          /\ last'.reachable
          /\ EmailStored(Lower(last'.req.email)) )
        => /\ last'.status = 400
           /\ last'.body = [detail |-> "Email already registered"]
           /\ store' = store ]_vars

\* an Account stored as "a@x", and a request for "A@x" rejected
C1_Witness ==
    /\ last.op = "register"
    /\ last.status = 400
    /\ last.req.email = <<"A","@","x">>
    /\ \E i \in 1..Len(Users) : Users[i].email = <<"a","@","x">>

\* C3: with register requests one at a time, a register request that reaches
\* the store and whose lowercased email is not stored succeeds, its id is the
\* id of no Account stored before, its Account is appended, and the store
\* holds one Account for each email.
C3_DistinctEmailsBothSucceed ==
    [][ ( /\ Completes("register")
          /\ last'.reachable
          /\ ~EmailStored(Lower(last'.req.email)) )
        => /\ last'.status = 200
           /\ \A i \in 1..Len(Users) : ToString(Users[i]._id) # last'.body.id
           /\ Len(Users') = Len(Users) + 1
           /\ SubSeq(Users', 1, Len(Users)) = Users
           /\ ToString(Users'[Len(Users')]._id) = last'.body.id
           /\ Users'[Len(Users')].email = Lower(last'.req.email)
           /\ Users'[Len(Users')].name = last'.req.name
           /\ OneAccountPerEmail' ]_vars

\* two register requests with different emails have both succeeded
C3_Witness ==
    /\ last.op = "register"
    /\ last.status = 200
    /\ Len(Users) = 2
    /\ Users[1].email # Users[2].email
    /\ Users[1]._id # Users[2]._id

\* the Accounts a login payload names: stored email the lowercased email,
\* stored hash the tagged password
Matches(u, payload) ==
    /\ u.email = Lower(payload.email)
    /\ u.password_hash = "sha256:" \o payload.password

\* the position of the first stored Account with an email (0: none)
FirstWith(email) ==
    IF EmailStored(email)
    THEN CHOOSE i \in 1..Len(Users) :
           /\ Users[i].email = email
           /\ \A j \in 1..(i - 1) : Users[j].email # email
    ELSE 0

Success(u) ==
    [token |-> "demo-token", user |-> [name |-> u.name, email |-> u.email]]

InvalidCredentials == [detail |-> "Invalid credentials"]

\* C2 as stated: a login that reaches the store succeeds, with the token and
\* the name and email of the Account, when some stored Account has the
\* submitted email and password, and is answered 401 "Invalid credentials"
\* otherwise.
C2_AnyAccountLogsIn ==
    (last.op = "login" /\ last.reachable) =>
        IF \E i \in 1..Len(Users) : Matches(Users[i], last.req)
        THEN /\ last.status = 200
             /\ \E i \in 1..Len(Users) :
                   Matches(Users[i], last.req) /\ last.body = Success(Users[i])
        ELSE last.status = 401 /\ last.body = InvalidCredentials

\* C2 amended: a login that reaches the store succeeds, with the token and the
\* name and email of the Account, when the first stored Account with the
\* lowercased email has the submitted password, and is answered 401 "Invalid
\* credentials" otherwise, whether the email is unknown or the password wrong.
C2_FirstAccountLogsIn ==
    (last.op = "login" /\ last.reachable) =>
        LET i == FirstWith(Lower(last.req.email))
        IN  IF i # 0 /\ Matches(Users[i], last.req)
            THEN last.status = 200 /\ last.body = Success(Users[i])
            ELSE last.status = 401 /\ last.body = InvalidCredentials

\* two Accounts share an email, and a login with the password of the second
\* is answered as a login with an unknown email is
C2_Witness ==
    /\ last.op = "login"
    /\ last.status = 401
    /\ last.body = InvalidCredentials
    /\ Len(Users) = 2
    /\ Users[1].email = Users[2].email
    /\ Matches(Users[2], last.req)

\* C7: a register request passes the existence check exactly when its
\* lowercased email is not stored at that moment, and a request that has
\* passed it and reaches the store inserts its Account and succeeds whatever
\* has been stored since: nothing checks the email at the insert.
C7_CheckThenInsertNotAtomic ==
    [][ /\ InFlight' > InFlight =>
              \E payload \in RegisterPayloads :
                 /\ inflight' = inflight (+) SetToBag({payload})
                 /\ ~EmailStored(Lower(payload.email))
        /\ (InFlight' < InFlight /\ last'.reachable) =>
              /\ last'.op = "register"
              /\ last'.status = 200
              /\ Users' = Append(Users, Users'[Len(Users')])
              /\ Users'[Len(Users')].email = Lower(last'.req.email)
              /\ ToString(Users'[Len(Users')]._id) = last'.body.id ]_vars

\* two register requests for one email have both succeeded: two Accounts
\* share the email
C7_Witness ==
    /\ last.op = "register"
    /\ last.status = 200
    /\ Len(Users) = 2
    /\ Users[1].email = Users[2].email
    /\ inflight = EmptyBag

\* the name a login that reaches the store returns now ("": it fails)
LoginName(payload) ==
    LET response == LoginResponse(payload)
    IN  IF response.status = 200 THEN response.body.user.name ELSE ""

\* the login payloads that spell an email in any letter case
SameEmail(email) == {e \in Emails : Lower(e) = Lower(email)}

\* C10 as stated: a login that reaches the store with the email, in any
\* letter case, and the password of any Account a register request has
\* stored succeeds and returns the name given in that registration.
C10_EveryRegistrationLogsIn ==
    (last.op = "login" /\ last.reachable) =>
        \A i \in 1..Len(Users) :
            Matches(Users[i], last.req) =>
                last.status = 200 /\ last.body.user.name = Users[i].name

\* C10 amended: once a register request has succeeded whose lowercased email
\* no Account stored before it has, every login from then on that reaches the
\* store with that email, in any letter case, and that password succeeds and
\* returns the name given in that registration, whatever is registered later.
C10_FirstRegistrationLogsIn ==
    [][ /\ ( /\ Completes("register")
              /\ last'.status = 200
              /\ ~EmailStored(Lower(last'.req.email)) )
            => \A payload \in LoginPayloads :
                 ( /\ payload.email \in SameEmail(last'.req.email)
                   /\ payload.password = last'.req.password )
                 => LoginName(payload)' = last'.req.name
        /\ store' # store
            => \A payload \in LoginPayloads :
                 LoginName(payload) # "" => LoginName(payload)' = LoginName(payload)
        /\ (Completes("login") /\ last'.reachable)
            => \A payload \in LoginPayloads :
                 (last'.req = payload /\ LoginName(payload)' # "")
                 => /\ last'.status = 200
                    /\ last'.body.user.name = LoginName(payload)' ]_vars

\* after two registrations for one email with different names, a login with
\* the first one's password returns the first one's name
C10_Witness ==
    /\ last.op = "login"
    /\ last.status = 200
    /\ Len(Users) = 2
    /\ Users[1].email = Users[2].email
    /\ Users[1].name # Users[2].name
    /\ last.body.user.name = Users[1].name
    /\ last.req.email = <<"A","@","x">>

\* the posts create_post has stored: all but the draft the database began with
CreatedPosts == {j \in 1..Len(Posts) : Posts[j]._id # SeedDraft._id}

\* C4: a listing that reaches the store returns only posts whose stored status
\* is "published", and returns every post create_post has stored so far.
C4_ListingIsPublishedAndComplete ==
    (last.op = "list" /\ last.reachable) =>
        /\ last.status = 200
        /\ \A i \in 1..Len(last.body) :
              \E j \in 1..Len(Posts) :
                 /\ ToString(Posts[j]._id) = last.body[i].id
                 /\ Posts[j].status = "published"
        /\ \A j \in CreatedPosts :
              \E i \in 1..Len(last.body) :
                 /\ last.body[i].id = ToString(Posts[j]._id)
                 /\ last.body[i].title = Posts[j].title
                 /\ last.body[i].slug = Posts[j].slug

\* a database holding a draft and two created posts, listed: the two posts
C4_Witness ==
    /\ last.op = "list"
    /\ last.status = 200
    /\ Len(Posts) = 3
    /\ Posts[1].status = "draft"
    /\ Len(last.body) = 2

\* C5: the excerpt of every post create_post has stored is the content when
\* the content has at most 140 characters, and otherwise the first 140
\* characters of the content followed by three dots.
C5_ExcerptIsTruncatedContent ==
    \A j \in CreatedPosts :
        LET content == Posts[j].content
            excerpt == Posts[j].excerpt
        IN  IF Len(content) <= 140
            THEN excerpt = content
            ELSE /\ Len(excerpt) = 143
                 /\ \A i \in 1..140 : excerpt[i] = content[i]
                 /\ \A i \in 141..143 : excerpt[i] = "."

\* a post of exactly 140 characters and a post of 141 are stored
C5_Witness ==
    /\ \E j \in CreatedPosts : Len(Posts[j].content) = 140
    /\ \E j \in CreatedPosts : Len(Posts[j].content) = 141

\* the title lowercased, without its leading and trailing whitespace, each
\* space a hyphen: by position
TrimmedHyphenated(title) ==
    LET lowered == Lower(title)
        inked == {i \in 1..Len(lowered) : lowered[i] \notin Whitespace}
    IN  IF inked = {} THEN <<>>
        ELSE LET first == CHOOSE i \in inked : \A k \in inked : i <= k
                 final == CHOOSE i \in inked : \A k \in inked : k <= i
             IN  [k \in 1..(final - first + 1) |->
                    IF lowered[first + k - 1] = " " THEN "-" ELSE lowered[first + k - 1]]

\* C6: the slug of every post create_post has stored is its title lowercased,
\* trimmed, each space a hyphen ("Hello World" gives "hello-world"); a
\* create_post that reaches the store succeeds whatever titles are stored, and
\* the slug it returns is the slug stored; posts of one title have one slug.
C6_SlugFromTitle ==
    /\ \A j \in CreatedPosts :
          /\ Posts[j].slug = TrimmedHyphenated(Posts[j].title)
          /\ Posts[j].title = <<"H","e","l","l","o"," ","W","o","r","l","d">>
                => Posts[j].slug = <<"h","e","l","l","o","-","w","o","r","l","d">>
          /\ \A k \in CreatedPosts :
                Posts[j].title = Posts[k].title => Posts[j].slug = Posts[k].slug
    /\ (last.op = "create_post" /\ last.reachable) =>
          /\ last.status = 200
          /\ \E j \in CreatedPosts :
                /\ ToString(Posts[j]._id) = last.body.id
                /\ Posts[j].title = last.req.title
                /\ Posts[j].slug = last.body.slug

\* two posts titled "Hello World" are stored, the second just created
C6_Witness ==
    /\ last.op = "create_post"
    /\ last.status = 200
    /\ \E j, k \in CreatedPosts :
          /\ j # k
          /\ Posts[j].title = <<"H","e","l","l","o"," ","W","o","r","l","d">>
          /\ Posts[k].title = Posts[j].title
          /\ Posts[k].slug = last.body.slug

\* the collection each creating handler writes
OwnCollection ==
    [register |-> "user", create_post |-> "blogpost", contact |-> "contactmessage"]

\* C8: every step keeps every stored record where it is; a login, a listing,
\* a /test and a rejected register leave the store as it was; a successful
\* register, create_post or contact appends one record to its own collection
\* and leaves the other two as they were; and nothing else changes the store.
C8_StoreOnlyGrowsByOne ==
    [][ /\ \A c \in Collections :
              /\ Len(store'[c]) >= Len(store[c])
              /\ SubSeq(store'[c], 1, Len(store[c])) = store[c]
        /\ ( /\ last' # last
              /\ \/ last'.op \in {"login", "list", "test"}
                 \/ last'.op = "register" /\ last'.status = 400 )
            => store' = store
        /\ \A op \in DOMAIN OwnCollection :
              (Completes(op) /\ last'.status = 200)
              => /\ Len(store'[OwnCollection[op]]) = Len(store[OwnCollection[op]]) + 1
                 /\ \A c \in Collections \ {OwnCollection[op]} : store'[c] = store[c]
        /\ store' # store
            => /\ last' # last
               /\ last'.op \in DOMAIN OwnCollection
               /\ last'.status = 200 ]_vars

\* a contact message has just been stored beside an Account
C8_Witness ==
    /\ last.op = "contact"
    /\ last.status = 200
    /\ Len(Contacts) = 1
    /\ Len(Users) = 1

\* the handlers that read or write the store on behalf of a caller
StoreHandlers == {"register", "login", "list", "create_post", "contact"}

\* C9: a request of a store handler whose store call fails (always, when the
\* handle is absent) is answered 500 in that step, writes nothing and puts no
\* request in flight; a /test is always answered 200, writes
\* nothing, lists at most 10 collection names, the first ones, and reports
\* an absent handle or a failed listing in its body, the error text cut to 50
\* characters.
C9_StoreFailureIsServerError ==
    [][ /\ ( /\ last' # last
              /\ last'.op \in StoreHandlers
              /\ (db = "none" \/ ~last'.reachable) )
            => /\ last'.status = 500
               /\ store' = store
               /\ nextId' = nextId
               /\ InFlight' <= InFlight
        /\ Completes("test")
            => /\ last'.status = 200
               /\ store' = store
               /\ Len(last'.body.collections) <= 10
               /\ db = "none" =>
                     /\ last'.body.database.text = "Available but not initialized"
                     /\ last'.body.collections = <<>>
               /\ (db # "none" /\ last'.reachable) =>
                     /\ last'.body.database.text = "Connected & Working"
                     /\ \A i \in 1..Len(last'.body.collections) :
                           last'.body.collections[i] = last'.req.collections[i]
                     /\ Len(last'.req.collections) <= 10 =>
                           last'.body.collections = last'.req.collections
               /\ (db # "none" /\ ~last'.reachable) =>
                     /\ last'.body.database.text = "Connected but Error"
                     /\ Len(last'.body.database.error) <= 50
                     /\ \A i \in 1..Len(last'.body.database.error) :
                           last'.body.database.error[i] = last'.req.e[i]
                     /\ last'.body.collections = <<>> ]_vars

\* a /test whose listing failed with a 51-character error, answered 200 with
\* the first 50 characters inline
C9_Witness ==
    /\ last.op = "test"
    /\ last.status = 200
    /\ ~last.reachable
    /\ db = "client"
    /\ last.body.database.text = "Connected but Error"
    /\ Len(last.req.e) = 51
    /\ Len(last.body.database.error) = 50

====
